---- MODULE Spec2Model ----
(***************************************************************************)
(* Model of tools/cert_create/src/ext.c: registration of the TBB           *)
(* certificate extensions with OpenSSL (ext_init) and the typed extension  *)
(* constructors (ext_new_hash, ext_new_nvcounter, ext_new_key) built on    *)
(* ext_new.  OpenSSL's tables (OBJ_create / X509V3_EXT_add) are the        *)
(* process-wide state; bytes are integers 0..255, buffers are sequences.   *)
(***************************************************************************)
EXTENDS Integers, Sequences, FiniteSets, TLC

VARIABLES
    faults,     \* whether the toolkit may report allocation failures in this run
    pc,         \* "start" before ext_init was called, "ready" after it returned,
                \* "returned" while the caller holds a constructor's result
    tbb_ext,    \* the definition array handed to ext_init (caller owned)
    addFail,    \* indices of tbb_ext at which X509V3_EXT_add reports failure
    objs,       \* OBJ_create's table: objects interned so far, in order
    ext_list,   \* X509V3_EXT_add's table: methods registered so far, in order
    initRet,    \* return value of ext_init (-1 before the call)
    call,       \* arguments of the last typed constructor call (NoCall if none)
    ex          \* what that call returned: an extension record or NULL

vars == <<faults, pc, tbb_ext, addFail, objs, ext_list, initRet, call, ex>>

NULL == [null |-> TRUE]
Ptr(bytes) == [null |-> FALSE, bytes |-> bytes]
NoCall == [op |-> "none", nid |-> 0, crit |-> 0, fault |-> "none",
           buf |-> <<>>, value |-> 0, k |-> NULL]

----------------------------------------------------------------------------
(* Bounds of the model *)

MaxDefs == 3          \* entries of tbb_ext before the terminating sentinel
MaxDigestLen == 2     \* digests of every length 0..MaxDigestLen are enumerated
MaxSmallCounter == 3  \* counters 0..MaxSmallCounter are enumerated
MaxKeyExtra == 2      \* keys encode to at most KEY_BUF_SIZE + MaxKeyExtra bytes

----------------------------------------------------------------------------
(* Program constants *)

KEY_BUF_SIZE == 4096
V_ASN1_INTEGER == 2
V_ASN1_OCTET_STRING == 4

----------------------------------------------------------------------------
(* Sequence helpers *)

Take(s, n) == SubSeq(s, 1, n)

Min(a, b) == IF a < b THEN a ELSE b

Fill(b, n) == [i \in 1..n |-> b]

----------------------------------------------------------------------------
(* The toolkit's object table (OBJ_create, OBJ_nid2obj) *)

\* Objects OpenSSL knows before ext_init runs: subjectKeyIdentifier, crlNumber
\* and sha256.  The first two are standard extensions, sha256 is not.
BuiltinNids == {82, 88, 672}

\* OBJ_create hands out the next free numeric id and adds the object.
OBJ_new_nid(objTable) == 1000 + Len(objTable)

OBJ_create(objTable, oid, sn, ln) ==
    [nid |-> OBJ_new_nid(objTable),
     objs |-> Append(objTable, [oid |-> oid, sn |-> sn, ln |-> ln,
                                nid |-> OBJ_new_nid(objTable)])]

\* OBJ_nid2obj: TRUE iff the numeric id names an object.
OBJ_known(objTable, nid) ==
    \/ nid \in BuiltinNids
    \/ \E k \in 1..Len(objTable) : objTable[k].nid = nid

----------------------------------------------------------------------------
(* The toolkit's extension-method table (X509V3_EXT_add and friends) *)

\* Variant of ext_method without the default branch: an unknown type goes
\* on to registration with the zeroed method.
ext_method_nodefault(type, nid) ==
    IF type = V_ASN1_INTEGER THEN
        [ext_nid |-> nid, ext_flags |-> 0, it |-> "ASN1_INTEGER",
         i2s |-> "i2s_ASN1_INTEGER", s2i |-> "s2i_ASN1_INTEGER"]
    ELSE IF type = V_ASN1_OCTET_STRING THEN
        [ext_nid |-> nid, ext_flags |-> 0, it |-> "ASN1_OCTET_STRING",
         i2s |-> "i2s_ASN1_OCTET_STRING", s2i |-> "s2i_ASN1_OCTET_STRING"]
    ELSE [ext_nid |-> nid, ext_flags |-> 0, it |-> "none",
          i2s |-> "none", s2i |-> "none"]

\* The method ext_init fills in for a type, lines 64-79; NULL for the default
\* branch of the switch, which registers nothing.
ext_method(type, nid) ==
    IF type = V_ASN1_INTEGER THEN
        [ext_nid |-> nid, ext_flags |-> 0, it |-> "ASN1_INTEGER",
         i2s |-> "i2s_ASN1_INTEGER", s2i |-> "s2i_ASN1_INTEGER"]
    ELSE IF type = V_ASN1_OCTET_STRING THEN
        [ext_nid |-> nid, ext_flags |-> 0, it |-> "ASN1_OCTET_STRING",
         i2s |-> "i2s_ASN1_OCTET_STRING", s2i |-> "s2i_ASN1_OCTET_STRING"]
    ELSE NULL

\* OpenSSL's standard_exts entries for the built-in extensions of the model.
standard_exts ==
    { [ext_nid |-> 82, ext_flags |-> 0, it |-> "ASN1_OCTET_STRING",
       i2s |-> "i2s_ASN1_OCTET_STRING", s2i |-> "s2i_skey_id"],
      [ext_nid |-> 88, ext_flags |-> 0, it |-> "ASN1_INTEGER",
       i2s |-> "i2s_ASN1_INTEGER", s2i |-> "none"] }

\* X509V3_EXT_get_nid: the standard table first, then the first match in the
\* registered list; NULL when the id has no method.
X509V3_EXT_get_nid(list, nid) ==
    IF \E m \in standard_exts : m.ext_nid = nid
    THEN CHOOSE m \in standard_exts : m.ext_nid = nid
    ELSE IF \E k \in 1..Len(list) : list[k].ext_nid = nid
    THEN list[CHOOSE k \in 1..Len(list) :
                 /\ list[k].ext_nid = nid
                 /\ \A j \in 1..(k - 1) : list[j].ext_nid # nid]
    ELSE NULL

\* X509V3_EXT_add: pushes the method; 0 when the toolkit cannot grow its list.
X509V3_EXT_add(list, m, ok) ==
    IF ok THEN [ret |-> 1, list |-> Append(list, m)]
    ELSE [ret |-> 0, list |-> list]

\* Variant of X509V3_EXT_add_alias with the two ids taken the other way round.
X509V3_EXT_add_alias_swapped(list, nid_to, nid_from, ok) ==
    LET ext == X509V3_EXT_get_nid(list, nid_to) IN
    IF ext = NULL THEN [ret |-> 0, list |-> list]
    ELSE X509V3_EXT_add(list,
            [ext EXCEPT !.ext_nid = nid_from, !.ext_flags = 1], ok)

\* X509V3_EXT_add_alias: copies the method of nid_from under nid_to, marked
\* dynamic; 0 when nid_from has no method or the add fails.
X509V3_EXT_add_alias(list, nid_to, nid_from, ok) ==
    LET ext == X509V3_EXT_get_nid(list, nid_from) IN
    IF ext = NULL THEN [ret |-> 0, list |-> list]
    ELSE X509V3_EXT_add(list,
            [ext EXCEPT !.ext_nid = nid_to, !.ext_flags = 1], ok)

----------------------------------------------------------------------------
(* ext_init *)

NoOid == <<>>

\* Variant of the loop condition that runs to the end of the array.
LoopContinuesToEnd(defs, i) == i < Len(defs)

\* Line 58: the loop runs while the entry has an oid.
LoopContinues(defs, i) == defs[i].oid # NoOid

\* Variant of the test that never sees a failure.
AddFailedNever(ret) == FALSE

\* Line 81: the test of X509V3_EXT_add's result.
AddFailed(ret) == ret = 0

\* One pass through the loop body, lines 59-85, for the entry ext.  stop says
\* whether the body left through "return 1".
ext_init_body(tk, ext, addOk) ==
    LET created == OBJ_create(tk.objs, ext.oid, ext.sn, ext.ln)
        nid == created.nid
    IN  IF ext.alias # 0 THEN
            [stop |-> FALSE, objs |-> created.objs,
             ext_list |-> X509V3_EXT_add_alias(tk.ext_list, nid, ext.alias,
                                               addOk).list]
        ELSE
            LET m == ext_method(ext.type, nid) IN
            IF m = NULL THEN
                [stop |-> FALSE, objs |-> created.objs, ext_list |-> tk.ext_list]
            ELSE
                LET added == X509V3_EXT_add(tk.ext_list, m, addOk) IN
                [stop |-> AddFailed(added.ret), objs |-> created.objs,
                 ext_list |-> added.list]

\* The loop of ext_init from index i on; fails is the set of indices at which
\* the toolkit refuses to add a method.
RECURSIVE ext_init_from(_, _, _, _)
ext_init_from(defs, i, tk, fails) ==
    IF ~LoopContinues(defs, i) THEN
        [ret |-> 0, objs |-> tk.objs, ext_list |-> tk.ext_list]
    ELSE
        LET r == ext_init_body(tk, defs[i], i \notin fails) IN
        IF r.stop THEN [ret |-> 1, objs |-> r.objs, ext_list |-> r.ext_list]
        ELSE ext_init_from(defs, i + 1,
                           [objs |-> r.objs, ext_list |-> r.ext_list], fails)

ext_init(defs, tk, fails) == ext_init_from(defs, 1, tk, fails)

----------------------------------------------------------------------------
(* The toolkit's DER encoders *)

\* DER definite length: short form below 128, else 0x80+k and k length bytes.
DerLength(n) ==
    IF n < 128 THEN <<n>>
    ELSE IF n < 256 THEN <<129, n>>
    ELSE <<130, n \div 256, n % 256>>

\* i2d_ASN1_OCTET_STRING: tag 0x04, length, the bytes.
i2d_ASN1_OCTET_STRING(str) == <<4>> \o DerLength(Len(str)) \o str

\* Big-endian bytes of x without leading zero bytes (none at all for 0).
RECURSIVE BytesBE(_)
BytesBE(x) == IF x = 0 THEN <<>> ELSE Append(BytesBE(x \div 256), x % 256)

\* The number whose big-endian bytes are s.
RECURSIVE ValBE(_)
ValBE(s) ==
    IF s = <<>> THEN 0 ELSE 256 * ValBE(Take(s, Len(s) - 1)) + s[Len(s)]

\* Two's complement of a non-zero magnitude, byte by byte as i2c_ASN1_INTEGER
\* does it: trailing zero bytes stay, the last non-zero byte is negated, the
\* bytes before it are inverted.
TwosComplement(data) ==
    LET z == CHOOSE k \in 1..Len(data) :
                 data[k] # 0 /\ \A j \in (k + 1)..Len(data) : data[j] = 0
    IN  [k \in 1..Len(data) |->
            IF k > z THEN 0 ELSE IF k = z THEN 256 - data[k] ELSE 255 - data[k]]

\* ASN1_INTEGER_set: sign and magnitude.
ASN1_INTEGER_set(v) ==
    [neg |-> v < 0, data |-> BytesBE(IF v < 0 THEN 0 - v ELSE v)]

\* Variant of i2c_ASN1_INTEGER that never pads a positive number.
i2c_ASN1_INTEGER_nopad(a) ==
    LET n == Len(a.data) IN
    IF n = 0 THEN <<0>>
    ELSE IF ~a.neg THEN a.data
    ELSE
        LET pad == \/ a.data[1] > 128
                   \/ /\ a.data[1] = 128
                      /\ \E k \in 2..n : a.data[k] # 0
        IN (IF pad THEN <<255>> ELSE <<>>) \o TwosComplement(a.data)

\* i2c_ASN1_INTEGER: the two's complement content octets of the integer.
i2c_ASN1_INTEGER(a) ==
    LET n == Len(a.data) IN
    IF n = 0 THEN <<0>>
    ELSE IF ~a.neg THEN
        (IF a.data[1] > 127 THEN <<0>> ELSE <<>>) \o a.data
    ELSE
        LET pad == \/ a.data[1] > 128
                   \/ /\ a.data[1] = 128
                      /\ \E k \in 2..n : a.data[k] # 0
        IN (IF pad THEN <<255>> ELSE <<>>) \o TwosComplement(a.data)

\* i2d_ASN1_INTEGER: tag 0x02, length, content.
i2d_ASN1_INTEGER(a) ==
    <<2>> \o DerLength(Len(i2c_ASN1_INTEGER(a))) \o i2c_ASN1_INTEGER(a)

\* i2d_PUBKEY_bio: the SubjectPublicKeyInfo of the key, a SEQUENCE whose body
\* is k.body bytes long; nothing is written for a key that cannot be encoded.
PubkeyDer(k) ==
    <<48>> \o DerLength(k.body) \o [j \in 1..k.body |-> (k.seed + j) % 256]

i2d_PUBKEY_bio(k) ==
    IF k.valid THEN [ret |-> 1, mem |-> PubkeyDer(k)]
    ELSE [ret |-> 0, mem |-> <<>>]

\* BIO_read on a memory BIO: at most max bytes of what the BIO holds.
BIO_read(mem, max) ==
    [sz |-> Min(Len(mem), max), bytes |-> Take(mem, Min(Len(mem), max))]

----------------------------------------------------------------------------
(* ext_new and the typed constructors *)

\* Length of the C string at the start of bytes.
StrLen(bytes) ==
    IF \E k \in 1..Len(bytes) : bytes[k] = 0
    THEN (CHOOSE k \in 1..Len(bytes) :
             bytes[k] = 0 /\ \A j \in 1..(k - 1) : bytes[j] # 0) - 1
    ELSE Len(bytes)

\* ASN1_OCTET_STRING_set on a new string.  A negative len with no data is
\* refused and leaves the string empty; with data NULL and len >= 0 the string
\* gets len bytes that nobody wrote (fresh is what the allocator returned).
ASN1_OCTET_STRING_set(data, len, fresh) ==
    IF len < 0 THEN
        IF data = NULL THEN [ret |-> 0, str |-> <<>>]
        ELSE [ret |-> 1, str |-> Take(data.bytes, StrLen(data.bytes))]
    ELSE IF data = NULL THEN [ret |-> 1, str |-> Fill(fresh, len)]
    ELSE [ret |-> 1, str |-> Take(data.bytes, len)]

\* X509_EXTENSION_set_critical: any non-zero crit marks the extension critical.
Critical(crit) == crit # 0

\* X509_EXTENSION_create_by_NID: NULL for an id that names no object, else
\* the extension with its own copy of the data.
X509_EXTENSION_create_by_NID(objTable, nid, crit, ext_data) ==
    IF ~OBJ_known(objTable, nid) THEN NULL
    ELSE [null |-> FALSE, nid |-> nid, critical |-> Critical(crit),
          value |-> ext_data]

\* Variant of ext_new that does not pass crit on.
ext_new_noncrit(objTable, nid, crit, data, len, fresh) ==
    X509_EXTENSION_create_by_NID(objTable, nid, 0,
        ASN1_OCTET_STRING_set(data, len, fresh).str)

ext_new(objTable, nid, crit, data, len, fresh) ==
    X509_EXTENSION_create_by_NID(objTable, nid, crit,
        ASN1_OCTET_STRING_set(data, len, fresh).str)

\* What the two i2d calls of a typed constructor leave in sz and p.  fault is
\* "none", "encode" (the toolkit cannot encode: both calls fail) or "alloc"
\* (the size is computed but no buffer is produced).
i2d_sz(der, fault) == IF fault = "encode" THEN -1 ELSE Len(der)

i2d_p(der, fault) == IF fault = "none" THEN Ptr(der) ELSE NULL

\* Variant passing the digest's length instead of the encoded size.
HashLenDigest(sz, len) == len

\* The length ext_new_hash passes on to ext_new, line 152.
HashLen(sz, len) == sz

ext_new_hash(objTable, nid, crit, buf, len, fault, fresh) ==
    LET hash == ASN1_OCTET_STRING_set(Ptr(buf), len, fresh).str
        der == i2d_ASN1_OCTET_STRING(hash)
        sz == i2d_sz(der, fault)
        p == i2d_p(der, fault)
    IN  ext_new(objTable, nid, crit, p, HashLen(sz, len), fresh)

ext_new_nvcounter(objTable, nid, crit, value, fault, fresh) ==
    LET counter == ASN1_INTEGER_set(value)
        der == i2d_ASN1_INTEGER(counter)
        sz == i2d_sz(der, fault)
        p == i2d_p(der, fault)
    IN  ext_new(objTable, nid, crit, p, sz, fresh)

ext_new_key(objTable, nid, crit, k, fresh) ==
    LET written == i2d_PUBKEY_bio(k) IN
    IF written.ret <= 0 THEN NULL
    ELSE LET got == BIO_read(written.mem, KEY_BUF_SIZE) IN
         ext_new(objTable, nid, crit, Ptr(got.bytes), got.sz, fresh)

----------------------------------------------------------------------------
(* Inputs *)

Sentinel == [oid |-> NoOid, sn |-> <<>>, ln |-> <<>>, alias |-> 0, type |-> 0]

\* The entry a caller may put at position j: the sentinel, a typed definition
\* (INTEGER, OCTET STRING, or BIT STRING as a type ext_init has no methods
\* for), or an alias of crlNumber or of the first object ext_init creates.
EntriesAt(j) ==
    {Sentinel}
    \cup { [oid |-> <<1, 2, 3, j>>, sn |-> <<"sn", j>>, ln |-> <<"ln", j>>,
            alias |-> 0, type |-> t] : t \in {V_ASN1_INTEGER, V_ASN1_OCTET_STRING, 3} }
    \cup { [oid |-> <<1, 2, 3, j>>, sn |-> <<"sn", j>>, ln |-> <<"ln", j>>,
            alias |-> a, type |-> 0] : a \in {88, 1000} }

\* Every array of n entries, the entry at position j taken from EntriesAt(j).
RECURSIVE Arrays(_)
Arrays(n) ==
    IF n = 0 THEN {<<>>}
    ELSE { Append(l, e) : l \in Arrays(n - 1), e \in EntriesAt(n) }

\* Every array of MaxDefs entries followed by the terminating sentinel.
DefLists == { Append(l, Sentinel) : l \in Arrays(MaxDefs) }

\* Arrays shaped like the tool's own table: typed definitions, one alias.
TbbLists ==
    { l \in DefLists :
        /\ \A j \in 1..(MaxDefs - 1) : l[j].oid = NoOid => l[j + 1].oid = NoOid
        /\ \A j \in 1..MaxDefs : l[j].type # 3 /\ l[j].alias # 1000
        /\ \A j \in 3..MaxDefs : l[j].oid = NoOid }

DigestBytes == {0, 171}

RECURSIVE SeqsUpTo(_, _)
SeqsUpTo(S, n) ==
    IF n = 0 THEN {<<>>}
    ELSE SeqsUpTo(S, n - 1)
         \cup { Append(q, b) : q \in { r \in SeqsUpTo(S, n - 1) : Len(r) = n - 1 },
                               b \in S }

Digests ==
    SeqsUpTo(DigestBytes, MaxDigestLen)
    \cup { Fill(171, n) : n \in {20, 32, 64, 127, 128, 255, 256} }

Counters ==
    0..MaxSmallCounter
    \cup {127, 128, 255, 256, 32767, 32768, 65535, 65536, 8388607, 8388608,
          16777215, 16777216, 2147483647}
    \cup {-1, -128, -129, -32768, -2147483647}

\* Keys by the length of their SubjectPublicKeyInfo body; the header of a long
\* body takes 4 bytes, so KEY_BUF_SIZE - 4 encodes to exactly KEY_BUF_SIZE.
Keys ==
    { [valid |-> FALSE, body |-> 0, seed |-> 0] }
    \cup { [valid |-> TRUE, body |-> b, seed |-> 7] :
             b \in {10, KEY_BUF_SIZE - 5}
                   \cup ((KEY_BUF_SIZE - 4)..(KEY_BUF_SIZE - 4 + MaxKeyExtra)) }

NidArgs == {88, 1000, 5000}
CritArgs == {0, 1}

\* What the toolkit may do in a run: nothing goes wrong unless faults is set.
I2dFaults == IF faults THEN {"none", "encode", "alloc"} ELSE {"none"}
AddFaults == IF faults THEN SUBSET (1..MaxDefs) ELSE {{}}
FreshBytes(fault) == IF fault = "alloc" THEN {0, 205} ELSE {0}

----------------------------------------------------------------------------
(* The state machine *)

InitCommon ==
    /\ pc = "start"
    /\ tbb_ext = <<Sentinel>>
    /\ addFail = {}
    /\ objs = <<>>
    /\ ext_list = <<>>
    /\ initRet = -1
    /\ call = NoCall
    /\ ex = NULL

Init == faults = FALSE /\ InitCommon

InitFault == faults = TRUE /\ InitCommon

\* The caller runs ext_init once, on one of the arrays in lists.
CallExtInit(lists) ==
    /\ pc = "start"
    /\ \E defs \in lists, fails \in AddFaults :
         LET r == ext_init(defs, [objs |-> objs, ext_list |-> ext_list], fails) IN
         /\ tbb_ext' = defs
         /\ addFail' = fails
         /\ objs' = r.objs
         /\ ext_list' = r.ext_list
         /\ initRet' = r.ret
    /\ pc' = "ready"
    /\ UNCHANGED <<faults, call, ex>>

ExtInitAny == CallExtInit(DefLists)

ExtInitTbb == CallExtInit(TbbLists)

\* Variant in which a constructor interns an object of its own.
EncodeFrameInterns ==
    /\ objs' = OBJ_create(objs, <<1, 2, 3, 0>>, <<>>, <<>>).objs
    /\ UNCHANGED <<faults, tbb_ext, addFail, ext_list, initRet>>

\* What a typed constructor leaves of the rest of the state: it only reads
\* the object table.
EncodeFrame == UNCHANGED <<faults, tbb_ext, addFail, objs, ext_list, initRet>>

CallExtNewHash ==
    /\ pc = "ready"
    /\ pc' = "returned"
    /\ \E nid \in NidArgs, crit \in CritArgs, buf \in Digests, fault \in I2dFaults :
         \E fresh \in FreshBytes(fault) :
           /\ call' = [op |-> "hash", nid |-> nid, crit |-> crit, fault |-> fault,
                       buf |-> buf, value |-> 0, k |-> NULL]
           /\ ex' = ext_new_hash(objs, nid, crit, buf, Len(buf), fault, fresh)
    /\ EncodeFrame

CallExtNewNvcounter ==
    /\ pc = "ready"
    /\ pc' = "returned"
    /\ \E nid \in NidArgs, crit \in CritArgs, value \in Counters, fault \in I2dFaults :
         \E fresh \in FreshBytes(fault) :
           /\ call' = [op |-> "nvcounter", nid |-> nid, crit |-> crit, fault |-> fault,
                       buf |-> <<>>, value |-> value, k |-> NULL]
           /\ ex' = ext_new_nvcounter(objs, nid, crit, value, fault, fresh)
    /\ EncodeFrame

CallExtNewKey ==
    /\ pc = "ready"
    /\ pc' = "returned"
    /\ \E nid \in NidArgs, crit \in CritArgs, k \in Keys :
           /\ call' = [op |-> "key", nid |-> nid, crit |-> crit, fault |-> "none",
                       buf |-> <<>>, value |-> 0, k |-> k]
           /\ ex' = ext_new_key(objs, nid, crit, k, 0)
    /\ EncodeFrame

\* The caller puts the returned extension into its certificate (or drops the
\* NULL) and is ready for the next call.
ReleaseExtension ==
    /\ pc = "returned"
    /\ pc' = "ready"
    /\ call' = NoCall
    /\ ex' = NULL
    /\ UNCHANGED <<faults, tbb_ext, addFail, objs, ext_list, initRet>>

Next ==
    \/ ExtInitTbb
    \/ CallExtNewHash
    \/ CallExtNewNvcounter
    \/ CallExtNewKey
    \/ ReleaseExtension

NextRegistry == ExtInitAny

Spec == Init /\ [][Next]_vars

SpecFault == InitFault /\ [][Next]_vars

SpecRegistry == Init /\ [][NextRegistry]_vars

SpecRegistryFault == InitFault /\ [][NextRegistry]_vars

----------------------------------------------------------------------------
(* What a reader of the certificate does with an extension: DER decoding and *)
(* the toolkit's printing.  Used to state the properties below.              *)

\* Splits a DER element with tag `tag` into its content; ok is FALSE when the
\* bytes are not exactly one such element.
DerContent(der, tag) ==
    IF Len(der) < 2 \/ der[1] # tag THEN [ok |-> FALSE, bytes |-> <<>>]
    ELSE LET l == der[2]
             hdr == IF l < 128 THEN 2 ELSE IF l = 129 THEN 3 ELSE 4
             n == IF l < 128 THEN l
                  ELSE IF l = 129 /\ Len(der) >= 3 THEN der[3]
                  ELSE IF l = 130 /\ Len(der) >= 4 THEN 256 * der[3] + der[4]
                  ELSE -1
         IN  IF n < 0 \/ Len(der) # hdr + n THEN [ok |-> FALSE, bytes |-> <<>>]
             ELSE [ok |-> TRUE, bytes |-> SubSeq(der, hdr + 1, Len(der))]

DecodeOctetString(der) == DerContent(der, 4)

\* The integer a DER INTEGER stands for (two's complement content).
DecodeInteger(der) ==
    LET c == DerContent(der, 2) IN
    IF ~c.ok \/ Len(c.bytes) = 0 THEN [ok |-> FALSE, value |-> 0]
    ELSE IF c.bytes[1] > 127
         THEN [ok |-> TRUE, value |-> 0 - ValBE(TwosComplement(c.bytes))]
         ELSE [ok |-> TRUE, value |-> ValBE(c.bytes)]

\* X509V3_EXT_print: the method's i2s applied to the decoded payload, or the
\* raw bytes when the id has no method or the payload does not decode.
Render(list, nid, payload) ==
    LET m == X509V3_EXT_get_nid(list, nid) IN
    IF m = NULL THEN [by |-> "raw", bytes |-> payload, value |-> 0]
    ELSE IF m.it = "ASN1_INTEGER" THEN
        IF DecodeInteger(payload).ok
        THEN [by |-> m.i2s, bytes |-> <<>>, value |-> DecodeInteger(payload).value]
        ELSE [by |-> "raw", bytes |-> payload, value |-> 0]
    ELSE
        IF DecodeOctetString(payload).ok
        THEN [by |-> m.i2s, bytes |-> DecodeOctetString(payload).bytes, value |-> 0]
        ELSE [by |-> "raw", bytes |-> payload, value |-> 0]

SamplePayloads ==
    { i2d_ASN1_INTEGER(ASN1_INTEGER_set(5)), i2d_ASN1_OCTET_STRING(<<171, 0>>),
      <<>> }

TypeOK ==
    /\ pc \in {"start", "ready", "returned"}
    /\ initRet \in {-1, 0, 1}
    /\ Len(objs) <= MaxDefs

----------------------------------------------------------------------------
(* Properties of the typed constructors *)

Returned(op) == pc = "returned" /\ call.op = op

\* C1: ext_new_key never returns a truncated key: a key whose
\* SubjectPublicKeyInfo is at most 4096 bytes long (4096 included) comes back
\* complete, a longer one makes the call fail and return no record.
C1_NoTruncatedKey ==
    (Returned("key") /\ call.k.valid /\ OBJ_known(objs, call.nid)) =>
        LET L == Len(PubkeyDer(call.k)) IN
        /\ L <= KEY_BUF_SIZE => (ex # NULL /\ ex.value = PubkeyDer(call.k))
        /\ L > KEY_BUF_SIZE => ex = NULL

\* C2: a typed constructor whose payload the toolkit fails to DER-serialize
\* returns NULL: no record is built from an unset buffer or an invalid length.
C2_FailFastNoPartialRecord ==
    /\ (Returned("key") /\ ~call.k.valid) => ex = NULL
    /\ ((Returned("hash") \/ Returned("nvcounter")) /\ call.fault # "none")
          => ex = NULL

\* C4: the value of the record ext_new_hash returns decodes, as a DER octet
\* string, to exactly the digest passed in, whatever its length, and no other
\* digest yields the same value.
C4_HashRoundTrip ==
    (Returned("hash") /\ OBJ_known(objs, call.nid)) =>
        /\ ex # NULL
        /\ DecodeOctetString(ex.value) = [ok |-> TRUE, bytes |-> call.buf]
        /\ \A d \in Digests \ {call.buf} :
             ext_new_hash(objs, call.nid, call.crit, d, Len(d), "none", 0).value
                # ex.value

C4_Witness ==
    Returned("hash") /\ ex # NULL /\ Len(call.buf) = 128

\* C5: the value of the record ext_new_nvcounter returns for a counter
\* 0 <= v <= 2^31-1 decodes, as a DER integer, to exactly v, and its content
\* is minimal: a leading 0x00 only before a byte with the high bit set.
C5_CounterRoundTrip ==
    (Returned("nvcounter") /\ call.value >= 0 /\ OBJ_known(objs, call.nid)) =>
        /\ ex # NULL
        /\ DecodeInteger(ex.value) = [ok |-> TRUE, value |-> call.value]
        /\ LET c == DerContent(ex.value, 2).bytes IN
           /\ Len(c) >= 1
           /\ (Len(c) > 1 /\ c[1] = 0) => c[2] > 127

C5_Witness ==
    Returned("nvcounter") /\ ex # NULL /\ call.value = 128

\* The bytes and the length a typed constructor hands to ext_new.
PayloadOf(c) ==
    IF c.op = "hash" THEN i2d_ASN1_OCTET_STRING(c.buf)
    ELSE IF c.op = "nvcounter" THEN i2d_ASN1_INTEGER(ASN1_INTEGER_set(c.value))
    ELSE BIO_read(PubkeyDer(c.k), KEY_BUF_SIZE).bytes

\* C6: every record a typed constructor returns carries the id and the
\* critical flag of the call and, as the content of its octet string, the
\* constructor's payload in the length it computed; ext_new does not fail
\* when the id names an object and the constructor produced a payload.
C6_RecordCarriesArguments ==
    pc = "returned" =>
        /\ ex # NULL =>
             /\ ex.nid = call.nid
             /\ ex.critical = (call.crit = 1)
             /\ ex.value = PayloadOf(call)
             /\ Len(ex.value) = Len(PayloadOf(call))
        /\ (OBJ_known(objs, call.nid) /\ (call.op = "key" => call.k.valid))
             => ex # NULL

C6_Witness ==
    Returned("key") /\ ex # NULL /\ call.crit = 1 /\ call.nid = 1000

----------------------------------------------------------------------------
(* Properties of ext_init, stated over the array it was given *)

HasOid(j) == tbb_ext[j].oid # NoOid

IsAlias(j) == HasOid(j) /\ tbb_ext[j].alias # 0

\* A definition for which ext_init has methods to attach.
Typed(j) ==
    /\ HasOid(j)
    /\ tbb_ext[j].alias = 0
    /\ tbb_ext[j].type \in {V_ASN1_INTEGER, V_ASN1_OCTET_STRING}

Unsupported(j) ==
    /\ HasOid(j)
    /\ tbb_ext[j].alias = 0
    /\ tbb_ext[j].type \notin {V_ASN1_INTEGER, V_ASN1_OCTET_STRING}

\* The toolkit refuses the methods of definition j.
AttachRefused(j) == Typed(j) /\ j \in addFail

\* The loop gets as far as definition j.
Visited(j) ==
    /\ HasOid(j)
    /\ \A i \in 1..(j - 1) : HasOid(i) /\ ~AttachRefused(i)

FirstSentinel ==
    CHOOSE s \in 1..Len(tbb_ext) : ~HasOid(s) /\ \A i \in 1..(s - 1) : HasOid(i)

NidOf(j) == objs[j].nid

HasMethods(j) ==
    /\ X509V3_EXT_get_nid(ext_list, NidOf(j)) # NULL
    /\ X509V3_EXT_get_nid(ext_list, NidOf(j)).ext_nid = NidOf(j)
    /\ X509V3_EXT_get_nid(ext_list, NidOf(j)).it =
          (IF tbb_ext[j].type = V_ASN1_INTEGER THEN "ASN1_INTEGER"
           ELSE "ASN1_OCTET_STRING")

NoMethods(j) ==
    /\ X509V3_EXT_get_nid(ext_list, NidOf(j)) = NULL
    /\ \A n \in 1..Len(ext_list) : ext_list[n].ext_nid # NidOf(j)

C7_AliasSharesPrinting ==
    (pc = "ready" /\ initRet = 0) =>
        \A j \in 1..MaxDefs :
            (Visited(j) /\ IsAlias(j)) =>
                LET mA == X509V3_EXT_get_nid(ext_list, tbb_ext[j].alias)
                    mN == X509V3_EXT_get_nid(ext_list, NidOf(j))
                IN  /\ mA = NULL => NoMethods(j)
                    /\ mA # NULL =>
                         mN = [mA EXCEPT !.ext_nid = NidOf(j), !.ext_flags = 1]
                    /\ Cardinality({n \in 1..Len(ext_list) :
                                      ext_list[n].ext_nid = NidOf(j)}) <= 1
                    /\ \A payload \in SamplePayloads :
                         Render(ext_list, NidOf(j), payload)
                            = Render(ext_list, tbb_ext[j].alias, payload)

C7_Witness ==
    /\ pc = "ready"
    /\ initRet = 0
    /\ Typed(1) /\ tbb_ext[1].type = V_ASN1_OCTET_STRING
    /\ IsAlias(2) /\ tbb_ext[2].alias = NidOf(1)
    /\ X509V3_EXT_get_nid(ext_list, NidOf(2)) # NULL

\* C8: a definition without alias whose type is neither INTEGER nor OCTET
\* STRING is interned and gets no method, ext_init does not return an error
\* at it, and the definition after it is processed as usual.
C8_UnsupportedTypeSkipped ==
    pc = "ready" =>
        \A j \in 1..MaxDefs :
            (Visited(j) /\ Unsupported(j)) =>
                /\ Len(objs) >= j
                /\ objs[j].oid = tbb_ext[j].oid
                /\ NoMethods(j)
                /\ ~HasOid(j + 1) => (initRet = 0 /\ Len(objs) = j)
                /\ HasOid(j + 1) =>
                     /\ Len(objs) >= j + 1
                     /\ objs[j + 1].oid = tbb_ext[j + 1].oid
                     /\ (Typed(j + 1) /\ ~AttachRefused(j + 1))
                           => HasMethods(j + 1)

C8_Witness ==
    /\ pc = "ready"
    /\ initRet = 0
    /\ Unsupported(1)
    /\ Typed(2)
    /\ Len(objs) >= 2
    /\ Len(ext_list) = 1

\* C9: ext_init takes the definitions in array order and stops at the first
\* entry without an oid: each definition before it is interned exactly once,
\* in order, and nothing placed after it is interned or registered.
C9_StopsAtSentinel ==
    pc = "ready" =>
        /\ initRet = 0
        /\ Len(objs) = FirstSentinel - 1
        /\ \A j \in 1..(FirstSentinel - 1) : objs[j].oid = tbb_ext[j].oid
        /\ \A j \in (FirstSentinel + 1)..Len(tbb_ext) :
             HasOid(j) => \A n \in 1..Len(objs) : objs[n].oid # tbb_ext[j].oid
        /\ \A n \in 1..Len(ext_list) :
             \E j \in 1..(FirstSentinel - 1) : ext_list[n].ext_nid = NidOf(j)

C9_Witness ==
    /\ pc = "ready"
    /\ FirstSentinel = 2
    /\ HasOid(3)
    /\ Len(objs) = 1

====
